---- MODULE Spec2Model ----
(***************************************************************************)
(* Model of the Splynx -> UISP payment bridge: the POST /webhook/payment   *)
(* handler (routes/webhook.js) and the storage / UISP calls it awaits, and  *)
(* the GET /payments and client-sync routes of the REST API (routes/api.js).*)
(* Every await of the handler is one action: the awaited call takes effect *)
(* and the handler runs synchronously up to its next await or response.    *)
(***************************************************************************)
EXTENDS Integers, Sequences, FiniteSets, TLC

\* Number of webhook deliveries in one run.
MaxReqs == 2
\* Number of distinct values Date.now() can return.
MaxNow == 2

Reqs == 1..MaxReqs
Times == 1..MaxNow

----------------------------------------------------------------------------
(* JSON values.  A value is a number, a string, an object or undefined;    *)
(* every value carries all four fields so that values are comparable.      *)

NoObj == [k \in {} |-> 0]
Undef == [t |-> "undef", n |-> 0, s |-> "", o |-> NoObj]
Num(n) == [t |-> "num", n |-> n, s |-> "", o |-> NoObj]
Str(s) == [t |-> "str", n |-> 0, s |-> s, o |-> NoObj]
Obj(o) == [t |-> "obj", n |-> 0, s |-> "", o |-> o]

\* o.k (undefined when o has no such property, or is not an object)
Get(v, k) == IF k \in DOMAIN v.o THEN v.o[k] ELSE Undef

\* o.k = x
Put(v, k, x) == Obj([j \in (DOMAIN v.o) \cup {k} |-> IF j = k THEN x ELSE v.o[j]])

\* JavaScript truthiness: 0, "" and undefined are falsy, objects are truthy.
Truthy(v) ==
  CASE v.t = "num" -> v.n # 0
    [] v.t = "str" -> v.s # ""
    [] v.t = "obj" -> TRUE
    [] OTHER -> FALSE

\* a || b
Or(a, b) == IF Truthy(a) THEN a ELSE b

\* Object.keys(v)
Keys(v) == DOMAIN v.o

\* `${v}`
Template(v) ==
  CASE v.t = "num" -> ToString(v.n)
    [] v.t = "str" -> v.s
    [] v.t = "obj" -> "[object Object]"
    [] OTHER -> "undefined"

\* parseInt(v) for the client ids of the model (NaN is -1)
ParseInt(v) ==
  CASE v.t = "num" -> v.n
    [] v.t = "str" /\ v.s = "7" -> 7
    [] OTHER -> -1

----------------------------------------------------------------------------
(* The synchronous part of the handler, as pure functions.                 *)

\* (variant: the {payment: ...} envelope is not unwrapped)
ExtractPaymentData_NoPaymentEnvelope(body) ==
  IF Truthy(Get(body, "data")) /\ Truthy(Get(Get(body, "data"), "attributes"))
  THEN Get(Get(body, "data"), "attributes")
  ELSE body

\* if (req.body.data && req.body.data.attributes) ... else if (req.body.payment) ... else
ExtractPaymentData(body) ==
  IF Truthy(Get(body, "data")) /\ Truthy(Get(Get(body, "data"), "attributes"))
  THEN Get(Get(body, "data"), "attributes")
  ELSE IF Truthy(Get(body, "payment"))
       THEN Get(body, "payment")
       ELSE body

\* (variant: only a missing payload counts as a ping, an empty one does not)
IsPing_MissingOnly(pd) == ~Truthy(pd)

\* if (!paymentData || Object.keys(paymentData).length === 0)
IsPing(pd) == ~Truthy(pd) \/ Cardinality(Keys(pd)) = 0

\* if (paymentData.customer_id && !paymentData.client_id) paymentData.client_id = ...
MapFields(pd) ==
  IF Truthy(Get(pd, "customer_id")) /\ ~Truthy(Get(pd, "client_id"))
  THEN Put(pd, "client_id", Get(pd, "customer_id"))
  ELSE pd

requiredFields == <<"client_id", "amount">>

\* (variant: a field counts as missing only when its key is absent)
MissingFields_AbsentOnly(pd) ==
  LET Missing(f) == f \notin Keys(pd) IN SelectSeq(requiredFields, Missing)

\* requiredFields.filter(field => !paymentData[field])
MissingFields(pd) ==
  LET Missing(f) == ~Truthy(Get(pd, f)) IN SelectSeq(requiredFields, Missing)

\* (variant: off by one, <= 3)
IsTestRequest_AtMost3(pd) == Cardinality(Keys(pd)) <= 3

\* if (Object.keys(paymentData).length < 3)
IsTestRequest(pd) == Cardinality(Keys(pd)) < 3

\* if (!paymentData.transaction_id) paymentData.transaction_id = `SPLYNX-${Date.now()}-${client_id}`
WithTransactionId(pd, now) ==
  IF ~Truthy(Get(pd, "transaction_id"))
  THEN Put(pd, "transaction_id",
           Str("SPLYNX-" \o ToString(now) \o "-" \o Template(Get(pd, "client_id"))))
  ELSE pd

\* const paymentRecord = {...}.  created_at defaults to the current time, an
\* opaque stamp written "now" here.
PaymentRecord(pd) ==
  [transaction_id |-> Get(pd, "transaction_id"),
   client_id      |-> Get(pd, "client_id"),
   amount         |-> Get(pd, "amount"),
   currency_code  |-> Or(Get(pd, "currency_code"), Str("KES")),
   payment_type   |-> Get(pd, "payment_type"),
   payment_method |-> Or(Get(pd, "payment_method"), Get(pd, "payment_type")),
   created_at     |-> Or(Get(pd, "created_at"), Str("now"))]

----------------------------------------------------------------------------
(* HTTP responses.                                                         *)

Response(status, message, error, tx, pstatus, missing, uispId) ==
  [status |-> status, message |-> message, error |-> error, transactionId |-> tx,
   paymentStatus |-> pstatus, missingFields |-> missing, uispPaymentId |-> uispId]

PingResponse ==
  Response(200, "Webhook endpoint is active and ready to receive payments", "",
           Undef, "", <<>>, Undef)
TestResponse ==
  Response(200, "Webhook endpoint is active. Required fields for actual payments: client_id, amount",
           "", Undef, "", <<>>, Undef)
MissingResponse(missing) ==
  Response(400, "", "Missing required fields", Undef, "", missing, Undef)
DuplicateResponse(tx, status) ==
  Response(200, "Payment already processed", "", tx, status, <<>>, Undef)
SuccessResponse(tx, uispResponse) ==
  Response(200, "Payment successfully posted to UISP", "", tx, "", <<>>,
           Get(uispResponse, "id"))
UispFailedResponse(tx, msg) ==
  Response(500, msg, "Failed to post payment to UISP", tx, "", <<>>, Undef)
InternalErrorResponse(msg) ==
  Response(500, msg, "Internal server error", Undef, "", <<>>, Undef)

----------------------------------------------------------------------------
(* Storage (dbHelpers) and the UISP service, as the handler relies on them.*)

\* dbHelpers.getPaymentByTransactionId: the rows with that transaction id
GetPaymentByTransactionId(rows, tx) ==
  SelectSeq(rows, LAMBDA p: p.transaction_id = tx)

\* dbHelpers.insertPayment rejects when storage fails or the id is taken
InsertPaymentThrows(rows, rec, ok) ==
  ~ok \/ GetPaymentByTransactionId(rows, rec.transaction_id) # <<>>

\* dbHelpers.insertPayment: the new row is pending
InsertPayment(rows, rec) ==
  Append(rows, [transaction_id |-> rec.transaction_id, client_id |-> rec.client_id,
                amount |-> rec.amount, currency_code |-> rec.currency_code,
                payment_type |-> rec.payment_type, payment_method |-> rec.payment_method,
                created_at |-> rec.created_at,
                status |-> "pending", response_payload |-> "", error_message |-> ""])

\* dbHelpers.updatePaymentStatus(transactionId, status, responsePayload, errorMessage)
UpdatePaymentStatus(rows, tx, status, payload, msg) ==
  [i \in DOMAIN rows |->
     IF rows[i].transaction_id = tx
     THEN [rows[i] EXCEPT !.status = status, !.response_payload = payload,
                          !.error_message = msg]
     ELSE rows[i]]

\* the error messages of a failed UISP post and of a failed storage call
UispErrorMessage == "UISP request failed"
StorageErrorMessage == "storage error"
\* the payment UISP returns, and JSON.stringify of it
UispPayment == Obj([id |-> Num(77)])
Stringify(v) == IF v = UispPayment THEN "{id:77}" ELSE "json"

----------------------------------------------------------------------------
(* Request bodies.                                                         *)

JsonApi(a) == Obj([data |-> Obj([attributes |-> a])])
PaymentEnvelope(a) == Obj([payment |-> a])

PayT1 == Obj([client_id |-> Num(1), amount |-> Num(100), transaction_id |-> Str("T1")])
PayT2 == Obj([client_id |-> Num(2), amount |-> Num(50), transaction_id |-> Str("T2"),
              currency_code |-> Str("USD")])
Incomplete == Obj([client_id |-> Num(1), transaction_id |-> Str("T1"), foo |-> Num(1)])
Empty == Obj(NoObj)

\* the deliveries of the concurrent runs: two payments, a malformed one, a ping
CoreBodies == {JsonApi(PayT1), PaymentEnvelope(PayT2), Incomplete, Empty}

\* Attribute objects: each field absent, falsy or truthy.
Field(k, vals) == {NoObj} \cup {k :> v : v \in vals}
Attrs ==
  {Obj(a @@ b @@ c @@ d @@ e @@ f) :
     a \in Field("client_id", {Num(0), Num(1)}),
     b \in Field("customer_id", {Num(5)}),
     c \in Field("amount", {Num(0), Num(100), Str("")}),
     d \in Field("transaction_id", {Str(""), Str("T1")}),
     e \in Field("foo", {Num(1)}),
     f \in Field("currency_code", {Str("USD")})}

\* Bodies that match neither envelope, or both.
OddBodies ==
  {Obj([data |-> Obj([foo |-> Num(1)])]),
   Obj([data |-> Num(5), client_id |-> Num(1), amount |-> Num(100)]),
   Obj([payment |-> Num(0), client_id |-> Num(1), amount |-> Num(100)]),
   Obj([payment |-> Num(5)]),
   Obj([data |-> Obj([attributes |-> PayT1]), payment |-> PayT2])}

AllBodies ==
  Attrs \cup {JsonApi(a) : a \in Attrs} \cup {PaymentEnvelope(a) : a \in Attrs}
        \cup OddBodies

----------------------------------------------------------------------------
(* The REST API (routes/api.js): GET /payments and the two sync triggers.  *)

\* Number of requests to the REST API in one run.
MaxApiReqs == 2
\* Rows the payments table can hold beyond the default page size.
MaxExtraRows == 1

ApiReqs == 1..MaxApiReqs

\* the value parseInt returns for a string that does not start with digits
NaN == [t |-> "nan", n |-> 0, s |-> "", o |-> NoObj]

\* parseInt(req.query.x): a query value is a string, or undefined when absent
ParseQueryInt(v) ==
  CASE v = Str("0") -> Num(0)
    [] v = Str("1") -> Num(1)
    [] v = Str("60") -> Num(60)
    [] OTHER -> NaN

DefaultLimit == 50
DefaultOffset == 0

\* (variant: only an absent or non-numeric limit is replaced by the default)
Limit_KeepsZero(query) ==
  LET n == ParseQueryInt(Get(query, "limit")) IN
  IF n = NaN THEN DefaultLimit ELSE n.n

\* const limit = parseInt(req.query.limit) || 50
Limit(query) == Or(ParseQueryInt(Get(query, "limit")), Num(DefaultLimit)).n

\* const offset = parseInt(req.query.offset) || 0
Offset(query) == Or(ParseQueryInt(Get(query, "offset")), Num(DefaultOffset)).n

\* the query strings of the model: each parameter absent, zero, positive or
\* not a number
Queries ==
  {Obj(l @@ o) :
     l \in Field("limit", {Str("0"), Str("1"), Str("60"), Str("abc")}),
     o \in Field("offset", {Str("0"), Str("1")})}

\* dbHelpers.getAllPayments(limit, offset): at most limit rows from row offset on
GetAllPayments(rows, limit, offset) ==
  SubSeq(rows, offset + 1, IF offset + limit < Len(rows) THEN offset + limit ELSE Len(rows))

\* the result summary syncAllClients resolves with, and the clients it stores
SyncResult == Obj([synced |-> Num(2)])
UispClients == {1, 2}
SyncErrorMessage == "UISP sync failed"

\* res.json(..) / res.status(500).json(..) of the three routes; data holds the
\* rows of a payments page, result the data of a completed sync
ApiResponse(status, success, message, error, data, pagination, syncStatus, result) ==
  [status |-> status, success |-> success, message |-> message, error |-> error,
   data |-> data, pagination |-> pagination, syncStatus |-> syncStatus,
   result |-> result]

PaymentsResponse(rows, limit, offset) ==
  ApiResponse(200, TRUE, "", "", rows,
              <<[limit |-> limit, offset |-> offset, count |-> Len(rows)]>>, "", Undef)
FetchFailedResponse(msg) ==
  ApiResponse(500, FALSE, msg, "Failed to fetch payments", <<>>, <<>>, "", Undef)
SyncStartedResponse ==
  ApiResponse(200, TRUE, "Client sync started in background", "", <<>>, <<>>,
              "in_progress", Undef)
SyncCompletedResponse(result) ==
  ApiResponse(200, TRUE, "Client sync completed", "", <<>>, <<>>, "", result)
SyncFailedResponse(msg) ==
  ApiResponse(500, FALSE, msg, "Client sync failed", <<>>, <<>>, "", Undef)

----------------------------------------------------------------------------
VARIABLES
  req,          \* per delivery: the handler's position and locals
  payments,     \* the payments table
  webhookLogs,  \* the webhook log table
  uispPosts,    \* the arguments of every postPaymentToUISP call made
  clients,      \* client ids synced, and client ids whose last payment was stamped
  api           \* per request to the REST API (routes/api.js): position and responses

vars == <<req, payments, webhookLogs, uispPosts, clients, api>>

IdleReq ==
  [pc |-> "idle", body |-> Undef, paymentData |-> Undef, paymentRecord |-> <<>>,
   post |-> "none", uispResponse |-> Undef, errorMessage |-> "",
   responses |-> <<>>, bg |-> "none",
   hist |-> <<>>,      \* history: the calls made and returned, in order
   known |-> {}]       \* history: ids recorded and answered before this delivery

IdleApi ==
  [pc |-> "idle", route |-> "", query |-> Undef, limit |-> 0, offset |-> 0,
   sync |-> "none",    \* the syncAllClients call this request made
   responses |-> <<>>]

Init ==
  /\ req = [r \in Reqs |-> IdleReq]
  /\ payments = <<>>
  /\ webhookLogs = <<>>
  /\ uispPosts = <<>>
  /\ clients = [synced |-> {}, lastPayment |-> {}]
  /\ api = [a \in ApiReqs |-> IdleApi]

TxOf(r) == Get(req[r].paymentData, "transaction_id")
Done(r) == req[r].pc = "done"

\* res.status(..).json(..) and the end of the handler
Respond(q, resp, events) ==
  [q EXCEPT !.pc = "done", !.responses = Append(@, resp), !.hist = @ \o events]

\* the ids that have a record and a delivery handled to completion
Completed ==
  {payments[i].transaction_id : i \in DOMAIN payments} \cap
  {TxOf(r) : r \in {x \in Reqs : Done(x)}}

----------------------------------------------------------------------------
\* A delivery passes the validator and the handler calls dbHelpers.logWebhook.
Receive(r, b) ==
  /\ req[r].pc = "idle"
  /\ \A x \in Reqs : x < r => req[x].pc # "idle"
  /\ req' = [req EXCEPT ![r] = [IdleReq EXCEPT !.pc = "logWebhook", !.body = b,
                                               !.hist = <<"logWebhook">>,
                                               !.known = Completed]]
  /\ UNCHANGED <<payments, webhookLogs, uispPosts, clients, api>>

\* The state of the handler after its synchronous steps from extraction to the
\* idempotency lookup, with Date.now() = now.
Validate(q, now) ==
  LET pd0 == ExtractPaymentData(q.body) IN
  IF IsPing(pd0)
  THEN Respond(q, PingResponse, <<"extract", "respond">>)
  ELSE LET pd == MapFields(pd0)
           missingFields == MissingFields(pd)
           q1 == [q EXCEPT !.paymentData = pd]
       IN  IF Len(missingFields) > 0
           THEN IF IsTestRequest(pd)
                THEN Respond(q1, TestResponse, <<"extract", "respond">>)
                ELSE Respond(q1, MissingResponse(missingFields), <<"extract", "respond">>)
           ELSE [q1 EXCEPT !.paymentData = WithTransactionId(pd, now),
                           !.pc = "getPayment",
                           !.hist = @ \o <<"extract", "getPayment">>]

\* (variant: the log is written after the ping check, so a ping is not logged)
LogWebhookAfterPingCheck(r, ok) ==
  /\ req[r].pc = "logWebhook"
  /\ IF IsPing(ExtractPaymentData(req[r].body))
     THEN /\ webhookLogs' = webhookLogs
          /\ req' = [req EXCEPT ![r] = Respond(@, PingResponse, <<"extract", "respond">>)]
     ELSE IF ok
     THEN /\ webhookLogs' = Append(webhookLogs, req[r].body)
          /\ \E now \in Times :
               req' = [req EXCEPT ![r] = Validate([req[r] EXCEPT !.hist = Append(@, "logged")], now)]
     ELSE /\ webhookLogs' = webhookLogs
          /\ req' = [req EXCEPT ![r] = Respond(@, InternalErrorResponse(StorageErrorMessage),
                                               <<"respond">>)]
  /\ UNCHANGED <<payments, uispPosts, clients, api>>

\* await dbHelpers.logWebhook(...) returns or throws.
LogWebhookReturn(r, ok) ==
  /\ req[r].pc = "logWebhook"
  /\ IF ok
     THEN /\ webhookLogs' = Append(webhookLogs, req[r].body)
          /\ \E now \in Times :
               req' = [req EXCEPT ![r] = Validate([req[r] EXCEPT !.hist = Append(@, "logged")], now)]
     ELSE /\ webhookLogs' = webhookLogs
          /\ req' = [req EXCEPT ![r] = Respond(@, InternalErrorResponse(StorageErrorMessage),
                                               <<"respond">>)]
  /\ UNCHANGED <<payments, uispPosts, clients, api>>

\* (variant: the idempotency check is skipped)
IsDuplicate_Never(existingPayment) == FALSE

\* if (existingPayment)
IsDuplicate(existingPayment) == existingPayment # <<>>

\* await dbHelpers.getPaymentByTransactionId(...) returns or throws.
GetPaymentReturn(r, ok) ==
  /\ req[r].pc = "getPayment"
  /\ LET existingPayment == GetPaymentByTransactionId(payments, TxOf(r)) IN
     req' = [req EXCEPT ![r] =
       IF ~ok
       THEN Respond(@, InternalErrorResponse(StorageErrorMessage), <<"respond">>)
       ELSE IF IsDuplicate(existingPayment)
       THEN Respond(@, DuplicateResponse(TxOf(r), existingPayment[1].status),
                    <<"looked up", "respond">>)
       ELSE [@ EXCEPT !.pc = "insertPayment",
                      !.paymentRecord = <<PaymentRecord(req[r].paymentData)>>,
                      !.hist = @ \o <<"looked up", "insertPayment">>]]
  /\ UNCHANGED <<payments, webhookLogs, uispPosts, clients, api>>

\* (variant: insertPayment is not awaited, its rejection is lost)
PostAfterInsert_Always(threw) == TRUE

\* await dbHelpers.insertPayment(paymentRecord): a rejection leaves the try block.
PostAfterInsert(threw) == ~threw

\* await dbHelpers.insertPayment(...) returns or throws; then postPaymentToUISP is called.
InsertPaymentReturn(r, ok) ==
  /\ req[r].pc = "insertPayment"
  /\ LET rec == req[r].paymentRecord[1]
         threw == InsertPaymentThrows(payments, rec, ok)
     IN  /\ payments' = IF threw THEN payments ELSE InsertPayment(payments, rec)
         /\ IF PostAfterInsert(threw)
            THEN /\ uispPosts' = Append(uispPosts, req[r].paymentData)
                 /\ req' = [req EXCEPT ![r].pc = "postPaymentToUISP",
                                       ![r].post = "called",
                                       ![r].hist = @ \o <<IF threw THEN "insert failed" ELSE "inserted",
                                                          "postPaymentToUISP">>]
            ELSE /\ uispPosts' = uispPosts
                 /\ req' = [req EXCEPT ![r] =
                              Respond(@, InternalErrorResponse(StorageErrorMessage),
                                      <<"insert failed", "respond">>)]
  /\ UNCHANGED <<webhookLogs, clients, api>>

\* await postPaymentToUISP(paymentData) returns or throws.
PostPaymentReturn(r, ok) ==
  /\ req[r].pc = "postPaymentToUISP"
  /\ req' = [req EXCEPT ![r] =
       IF ok
       THEN [@ EXCEPT !.pc = "updateSuccess", !.post = "ok", !.uispResponse = UispPayment,
                      !.hist = @ \o <<"posted", "updateSuccess">>]
       ELSE [@ EXCEPT !.pc = "updateFailed", !.post = "failed",
                      !.errorMessage = UispErrorMessage,
                      !.hist = @ \o <<"post failed", "updateFailed">>]]
  /\ UNCHANGED <<payments, webhookLogs, uispPosts, clients, api>>

\* (variant: the handler awaits syncSingleClient before it responds)
SucceedAndAwaitSync(q) ==
  [q EXCEPT !.pc = "done", !.bg = "syncSingleClient",
            !.hist = @ \o <<"updated success", "syncSingleClient">>]

\* (variant: a statement after res.status(200).json(...) throws inside the try
\* block, so the catch block runs after the response was sent)
SucceedRespondAndThrow(q) ==
  [Respond(q, SuccessResponse(Get(q.paymentData, "transaction_id"), q.uispResponse),
           <<"updated success", "syncSingleClient", "respond", "updateFailed">>)
     EXCEPT !.bg = "syncSingleClient", !.pc = "updateFailed"]

\* syncSingleClient(...) is started and not awaited; then res.status(200).json(...)
SucceedAndRespond(q) ==
  [Respond(q, SuccessResponse(Get(q.paymentData, "transaction_id"), q.uispResponse),
           <<"updated success", "syncSingleClient", "respond">>)
     EXCEPT !.bg = "syncSingleClient"]

\* (variant: a statement after the status update throws, e.g. uispResponse.id
\* on a null response)
EntersCatch_Always(threw) == TRUE

\* try { ...; await updatePaymentStatus(.., 'success', ..); ... } catch (uispError):
\* the catch block runs when a statement of the try block threw.
EntersCatch(threw) == threw

\* await dbHelpers.updatePaymentStatus(id, 'success', ...) returns or throws into
\* catch (uispError).
UpdateSuccessReturn(r, ok) ==
  /\ req[r].pc = "updateSuccess"
  /\ payments' = IF ok
                 THEN UpdatePaymentStatus(payments, TxOf(r), "success",
                                          Stringify(req[r].uispResponse), "")
                 ELSE payments
  /\ req' = [req EXCEPT ![r] =
       IF EntersCatch(~ok)
       THEN [@ EXCEPT !.pc = "updateFailed", !.errorMessage = StorageErrorMessage,
                      !.hist = @ \o <<IF ok THEN "updated success" ELSE "update success failed",
                                      "updateFailed">>]
       ELSE SucceedAndRespond(@)]
  /\ UNCHANGED <<webhookLogs, uispPosts, clients, api>>

\* await dbHelpers.updatePaymentStatus(id, 'failed', null, uispError.message)
\* returns or throws into the outer catch.
UpdateFailedReturn(r, ok) ==
  /\ req[r].pc = "updateFailed"
  /\ IF ok
     THEN /\ payments' = UpdatePaymentStatus(payments, TxOf(r), "failed", "",
                                             req[r].errorMessage)
          /\ req' = [req EXCEPT ![r] =
                       Respond(@, UispFailedResponse(TxOf(r), @.errorMessage),
                               <<"updated failed", "respond">>)]
     ELSE /\ payments' = payments
          /\ req' = [req EXCEPT ![r] =
                       Respond(@, InternalErrorResponse(StorageErrorMessage),
                               <<"update failed failed", "respond">>)]
  /\ UNCHANGED <<webhookLogs, uispPosts, clients, api>>

\* (variant: updateClientLastPayment is chained with .finally, so it runs after
\* a rejected sync too)
SyncSingleClientReturn_StampsAnyway(r, ok) ==
  /\ req[r].bg = "syncSingleClient"
  /\ clients' = IF ok
                THEN [clients EXCEPT !.synced = @ \cup {ParseInt(Get(req[r].paymentData, "client_id"))}]
                ELSE clients
  /\ req' = [req EXCEPT ![r].bg = "updateClientLastPayment",
                        ![r].hist = @ \o <<IF ok THEN "synced" ELSE "sync failed",
                                           "updateClientLastPayment">>]
  /\ UNCHANGED <<payments, webhookLogs, uispPosts, api>>

\* The background syncSingleClient(parseInt(client_id)) resolves or rejects.
SyncSingleClientReturn(r, ok) ==
  /\ req[r].bg = "syncSingleClient"
  /\ IF ok
     THEN /\ clients' = [clients EXCEPT !.synced = @ \cup {ParseInt(Get(req[r].paymentData, "client_id"))}]
          /\ req' = [req EXCEPT ![r].bg = "updateClientLastPayment",
                                ![r].hist = @ \o <<"synced", "updateClientLastPayment">>]
     ELSE /\ clients' = clients
          /\ req' = [req EXCEPT ![r].bg = "failed", ![r].hist = Append(@, "sync failed")]
  /\ UNCHANGED <<payments, webhookLogs, uispPosts, api>>

\* The background dbHelpers.updateClientLastPayment(...) resolves or rejects.
UpdateClientLastPaymentReturn(r, ok) ==
  /\ req[r].bg = "updateClientLastPayment"
  /\ IF ok
     THEN /\ clients' = [clients EXCEPT !.lastPayment = @ \cup {ParseInt(Get(req[r].paymentData, "client_id"))}]
          /\ req' = [req EXCEPT ![r].bg = "done", ![r].hist = Append(@, "last payment updated")]
     ELSE /\ clients' = clients
          /\ req' = [req EXCEPT ![r].bg = "failed",
                                ![r].hist = Append(@, "last payment update failed")]
  /\ UNCHANGED <<payments, webhookLogs, uispPosts, api>>

Step(r, ok) ==
  \/ LogWebhookReturn(r, ok)
  \/ GetPaymentReturn(r, ok)
  \/ InsertPaymentReturn(r, ok)
  \/ PostPaymentReturn(r, ok)
  \/ UpdateSuccessReturn(r, ok)
  \/ UpdateFailedReturn(r, ok)
  \/ SyncSingleClientReturn(r, ok)
  \/ UpdateClientLastPaymentReturn(r, ok)

Next ==
  \/ \E r \in Reqs, b \in CoreBodies : Receive(r, b)
  \/ \E r \in Reqs, ok \in BOOLEAN : Step(r, ok)

Spec == Init /\ [][Next]_vars

----------------------------------------------------------------------------
(* One delivery of an arbitrary body, into an empty store or into one that *)
(* already processed payment T1.                                           *)

\* the store after a delivery of JsonApi(PayT1) was processed successfully
PaymentsAfterT1 ==
  UpdatePaymentStatus(InsertPayment(<<>>, PaymentRecord(PayT1)), Str("T1"), "success",
                      Stringify(UispPayment), "")

InitPayload ==
  /\ \E b \in AllBodies :
        req = [r \in Reqs |->
                 IF r = 1
                 THEN [IdleReq EXCEPT !.pc = "logWebhook", !.body = b,
                                      !.hist = <<"logWebhook">>]
                 ELSE IdleReq]
  /\ \/ /\ payments = <<>>
        /\ webhookLogs = <<>>
        /\ uispPosts = <<>>
     \/ /\ payments = PaymentsAfterT1
        /\ webhookLogs = <<JsonApi(PayT1)>>
        /\ uispPosts = <<PayT1>>
  /\ clients = [synced |-> {}, lastPayment |-> {}]
  /\ api = [a \in ApiReqs |-> IdleApi]

NextPayload == \E ok \in BOOLEAN : Step(1, ok)

SpecPayload == InitPayload /\ [][NextPayload]_vars

----------------------------------------------------------------------------
(* Requests to the REST API over a store that deliveries have filled.      *)

\* GET /api/payments arrives: limit and offset are read, getAllPayments is called.
GetPayments(a, query) ==
  /\ api[a].pc = "idle"
  /\ \A x \in ApiReqs : x < a => api[x].pc # "idle"
  /\ api' = [api EXCEPT ![a] = [IdleApi EXCEPT !.pc = "getAllPayments",
                                               !.route = "GET /payments",
                                               !.query = query,
                                               !.limit = Limit(query),
                                               !.offset = Offset(query)]]
  /\ UNCHANGED <<req, payments, webhookLogs, uispPosts, clients>>

\* await dbHelpers.getAllPayments(limit, offset) returns or throws.
GetAllPaymentsReturn(a, ok) ==
  /\ api[a].pc = "getAllPayments"
  /\ api' = [api EXCEPT ![a].pc = "done",
                        ![a].responses =
                          IF ok
                          THEN Append(@, PaymentsResponse(
                                            GetAllPayments(payments, api[a].limit, api[a].offset),
                                            api[a].limit, api[a].offset))
                          ELSE Append(@, FetchFailedResponse(StorageErrorMessage))]
  /\ UNCHANGED <<req, payments, webhookLogs, uispPosts, clients>>

\* (variant: the trigger awaits syncAllClients, as POST /clients/sync/wait does)
PostClientsSync_Awaits(a) ==
  /\ api[a].pc = "idle"
  /\ \A x \in ApiReqs : x < a => api[x].pc # "idle"
  /\ api' = [api EXCEPT ![a] = [IdleApi EXCEPT !.pc = "syncAllClients",
                                               !.route = "POST /clients/sync",
                                               !.sync = "running"]]
  /\ UNCHANGED <<req, payments, webhookLogs, uispPosts, clients>>

\* POST /api/clients/sync: syncAllClients() is started and not awaited; then
\* res.json({.., status: 'in_progress'}).
PostClientsSync(a) ==
  /\ api[a].pc = "idle"
  /\ \A x \in ApiReqs : x < a => api[x].pc # "idle"
  /\ api' = [api EXCEPT ![a] = [IdleApi EXCEPT !.pc = "done",
                                               !.route = "POST /clients/sync",
                                               !.sync = "running",
                                               !.responses = <<SyncStartedResponse>>]]
  /\ UNCHANGED <<req, payments, webhookLogs, uispPosts, clients>>

\* The background syncAllClients() resolves or rejects; either is only logged.
BackgroundSyncReturn(a, ok) ==
  /\ api[a].pc = "done" /\ api[a].sync = "running"
  /\ api' = [api EXCEPT ![a].sync = IF ok THEN "completed" ELSE "failed"]
  /\ clients' = IF ok THEN [clients EXCEPT !.synced = @ \cup UispClients] ELSE clients
  /\ UNCHANGED <<req, payments, webhookLogs, uispPosts>>

\* POST /api/clients/sync/wait: syncAllClients() is called and awaited.
PostClientsSyncWait(a) ==
  /\ api[a].pc = "idle"
  /\ \A x \in ApiReqs : x < a => api[x].pc # "idle"
  /\ api' = [api EXCEPT ![a] = [IdleApi EXCEPT !.pc = "syncAllClients",
                                               !.route = "POST /clients/sync/wait",
                                               !.sync = "running"]]
  /\ UNCHANGED <<req, payments, webhookLogs, uispPosts, clients>>

\* await syncAllClients() returns or throws.
SyncWaitReturn(a, ok) ==
  /\ api[a].pc = "syncAllClients"
  /\ api' = [api EXCEPT ![a].pc = "done",
                        ![a].sync = IF ok THEN "completed" ELSE "failed",
                        ![a].responses =
                          Append(@, IF ok THEN SyncCompletedResponse(SyncResult)
                                          ELSE SyncFailedResponse(SyncErrorMessage))]
  /\ clients' = IF ok THEN [clients EXCEPT !.synced = @ \cup UispClients] ELSE clients
  /\ UNCHANGED <<req, payments, webhookLogs, uispPosts>>

\* the payments table after n deliveries were processed successfully
StoredPayment(i) ==
  PaymentRecord(Obj([client_id |-> Num(1), amount |-> Num(100),
                     transaction_id |-> Str("P" \o ToString(i))]))
StoredRow(i) ==
  UpdatePaymentStatus(InsertPayment(<<>>, StoredPayment(i)),
                      StoredPayment(i).transaction_id, "success",
                      Stringify(UispPayment), "")[1]
StoredPayments(n) == [i \in 1..n |-> StoredRow(i)]

\* an empty table, a short one, and one longer than the default page
TableSizes == {0, 2, DefaultLimit + MaxExtraRows}

InitApi ==
  /\ req = [r \in Reqs |-> IdleReq]
  /\ \E n \in TableSizes : payments = StoredPayments(n)
  /\ webhookLogs = <<>>
  /\ uispPosts = <<>>
  /\ clients = [synced |-> {}, lastPayment |-> {}]
  /\ api = [a \in ApiReqs |-> IdleApi]

NextApi ==
  \/ \E a \in ApiReqs, query \in Queries : GetPayments(a, query)
  \/ \E a \in ApiReqs, ok \in BOOLEAN : GetAllPaymentsReturn(a, ok)
  \/ \E a \in ApiReqs : PostClientsSync(a)
  \/ \E a \in ApiReqs, ok \in BOOLEAN : BackgroundSyncReturn(a, ok)
  \/ \E a \in ApiReqs : PostClientsSyncWait(a)
  \/ \E a \in ApiReqs, ok \in BOOLEAN : SyncWaitReturn(a, ok)

SpecApi == InitApi /\ [][NextApi]_vars

----------------------------------------------------------------------------
(* Properties.                                                             *)

Has(r, e) == \E i \in DOMAIN req[r].hist : req[r].hist[i] = e
Before(r, a, b) ==
  \E i, j \in DOMAIN req[r].hist : i < j /\ req[r].hist[i] = a /\ req[r].hist[j] = b
RowsOf(tx) == GetPaymentByTransactionId(payments, tx)

\* the normalized attributes a body carries
Normalized(b) == MapFields(ExtractPaymentData(b))
\* body b is a complete payment webhook carrying transaction id tx
Delivers(b, tx) ==
  /\ ~IsPing(ExtractPaymentData(b))
  /\ MissingFields(Normalized(b)) = <<>>
  /\ Truthy(tx)
  /\ Get(Normalized(b), "transaction_id") = tx
\* q is a delivery of an id that, when q arrived, had a record and a delivery
\* handled to completion
IsRedelivery(q) == \E tx \in q.known : Delivers(q.body, tx)
CarriedTx(q) == Get(Normalized(q.body), "transaction_id")

\* what every step of a redelivery leaves alone
RedeliveryFrame(r) == payments' = payments /\ uispPosts' = uispPosts
RedeliveryAnswer(r) ==
  <<DuplicateResponse(CarriedTx(req'[r]), RowsOf(CarriedTx(req'[r]))[1].status)>>

\* C1 as stated: a redelivery of a recorded, completed transaction id writes
\* no record, posts nothing, changes nothing and is answered 200 with the
\* stored status.
C1_RedeliveryAlways200 ==
  [][\A r \in Reqs :
       (req'[r] # req[r] /\ IsRedelivery(req'[r])) =>
         /\ RedeliveryFrame(r)
         /\ req'[r].pc = "done" => req'[r].responses = RedeliveryAnswer(r)]_vars

\* C1 (amended): a redelivery of a recorded, completed transaction id writes no
\* record, posts nothing and changes no record; it is answered 200 with the
\* stored status, unless logWebhook or getPaymentByTransactionId throws for
\* it, and then it is answered 500.
C1_RedeliveryShortCircuits ==
  [][\A r \in Reqs :
       (req'[r] # req[r] /\ IsRedelivery(req'[r])) =>
         /\ RedeliveryFrame(r)
         /\ req'[r].pc = "done" =>
              \/ req'[r].responses = RedeliveryAnswer(r)
              \/ /\ req'[r].responses = <<InternalErrorResponse(StorageErrorMessage)>>
                 /\ req'[r].hist \in
                      {<<"logWebhook", "respond">>,
                       <<"logWebhook", "logged", "extract", "getPayment", "respond">>}]_vars

C1_Witness ==
  \E r \in Reqs :
    /\ Done(r) /\ IsRedelivery(req[r])
    /\ req[r].responses = <<DuplicateResponse(Str("T1"), "failed")>>
    /\ Len(RowsOf(Str("T1"))) = 1 /\ Len(uispPosts) = 1

PostTx(i) == Get(uispPosts[i], "transaction_id")

\* C2: postPaymentToUISP is invoked at most once per transaction id, however
\* many deliveries carry the id and however their handling overlaps.
C2_AtMostOnePost ==
  \A i, j \in DOMAIN uispPosts : PostTx(i) = PostTx(j) => i = j

C2_Witness ==
  \E r1, r2 \in Reqs :
    /\ r1 # r2 /\ Done(r1) /\ Done(r2) /\ TxOf(r1) = TxOf(r2)
    /\ Has(r1, "looked up") /\ Has(r2, "insert failed") /\ Has(r1, "posted")
    /\ Cardinality({i \in DOMAIN uispPosts : PostTx(i) = TxOf(r1)}) = 1

\* C3: at most one payment record per transaction id, and a record that is
\* success or failed never changes its status again (a pending one only
\* becomes success or failed).
C3_OneRecordFinalizedOnce ==
  /\ [](\A i, j \in DOMAIN payments :
          payments[i].transaction_id = payments[j].transaction_id => i = j)
  /\ [][\A i \in DOMAIN payments :
          /\ i \in DOMAIN payments'
          /\ payments'[i].transaction_id = payments[i].transaction_id
          /\ payments[i].status # "pending" => payments'[i].status = payments[i].status
          /\ payments'[i].status \in {payments[i].status, "success", "failed"}]_vars

C3_Witness ==
  \E r1, r2 \in Reqs :
    /\ r1 # r2 /\ Done(r1) /\ Done(r2) /\ TxOf(r1) = TxOf(r2)
    /\ Has(r1, "updated success") /\ Has(r2, "insert failed")
    /\ Len(RowsOf(TxOf(r1))) = 1 /\ RowsOf(TxOf(r1))[1].status = "success"

\* C4 as stated: when a delivery that reached the external post has been
\* answered, its record is success if the post succeeded and failed with a
\* non-empty error message if the post failed; it is never still pending.
C4_StatusFollowsPost ==
  \A r \in Reqs :
    (Done(r) /\ req[r].post # "none") =>
      /\ RowsOf(TxOf(r)) # <<>>
      /\ LET row == RowsOf(TxOf(r))[1] IN
           /\ row.status # "pending"
           /\ req[r].post = "ok" => row.status = "success"
           /\ req[r].post = "failed" => row.status = "failed" /\ row.error_message # ""

\* C5: postPaymentToUISP is invoked only after insertPayment succeeded in the
\* same delivery; a delivery whose insert fails ends with 500 and posts nothing.
C5_PostOnlyAfterInsert ==
  /\ \A r \in Reqs :
       req[r].post # "none" =>
         /\ Before(r, "inserted", "postPaymentToUISP")
         /\ RowsOf(TxOf(r)) # <<>>
  /\ \A r \in Reqs :
       Has(r, "insert failed") =>
         /\ Done(r) /\ req[r].post = "none"
         /\ req[r].responses = <<InternalErrorResponse(StorageErrorMessage)>>
  /\ Len(uispPosts) = Cardinality({r \in Reqs : req[r].post # "none"})
  /\ \A i \in DOMAIN uispPosts : RowsOf(PostTx(i)) # <<>>

C5_Witness ==
  \E r \in Reqs :
    /\ Has(r, "insert failed") /\ Done(r)
    /\ RowsOf(TxOf(r)) = <<>> /\ uispPosts = <<>>

Responded200(r) ==
  /\ req[r].responses # <<>>
  /\ req[r].responses[1].message = "Payment successfully posted to UISP"

\* C6: the success response is sent right after the status update to success
\* and as soon as the resync is started; the steps of the resync change neither
\* the response nor the payments.
C6_ResponseIgnoresResync ==
  /\ [](\A r \in Reqs :
          (req[r].bg # "none" \/ Responded200(r)) =>
            /\ req[r].bg # "none"
            /\ req[r].responses = <<SuccessResponse(TxOf(r), UispPayment)>>
            /\ Before(r, "updated success", "respond")
            /\ ~Before(r, "synced", "respond") /\ ~Before(r, "sync failed", "respond")
            /\ RowsOf(TxOf(r))[1].status = "success")
  /\ [][\A r \in Reqs :
          (req[r].bg # "none" /\ req'[r].bg # req[r].bg) =>
            /\ req'[r].responses = req[r].responses
            /\ payments' = payments]_vars

C6_Witness ==
  \E r \in Reqs :
    /\ Done(r) /\ req[r].bg = "syncSingleClient"
    /\ req[r].responses = <<SuccessResponse(TxOf(r), UispPayment)>>
    /\ RowsOf(TxOf(r))[1].status = "success"

Started == {r \in Reqs : req[r].pc # "idle"}
Entered == {r \in Reqs : req[r].pc \notin {"idle", "logWebhook"}}
AppendOnly ==
  /\ Len(webhookLogs') \in {Len(webhookLogs), Len(webhookLogs) + 1}
  /\ SubSeq(webhookLogs', 1, Len(webhookLogs)) = webhookLogs

\* C9 as stated: every delivery whose logWebhook call has returned appended
\* exactly one webhook log entry.
C9_EveryDeliveryLogged ==
  Len(webhookLogs) = Cardinality(Entered)

\* C9 (amended): every delivery calls logWebhook once, first of all; it
\* appends exactly one entry when the call succeeds, before extraction and
\* any lookup, write or external call, and none when the call throws (the
\* delivery then ends with 500 and nothing else done); entries are never
\* modified or removed.
C9_LoggedAtEntry ==
  /\ [](/\ Len(webhookLogs) = Cardinality({r \in Reqs : Has(r, "logged")})
        /\ \A i \in DOMAIN webhookLogs :
             \E r \in Reqs : Has(r, "logged") /\ webhookLogs[i] = req[r].body
        /\ \A r \in Started :
             /\ req[r].hist[1] = "logWebhook"
             /\ Cardinality({i \in DOMAIN req[r].hist :
                               req[r].hist[i] \in {"logWebhook", "logged"}}) <= 2
             /\ r \in Entered =>
                  \/ req[r].hist[2] = "logged"
                  \/ /\ req[r].hist = <<"logWebhook", "respond">>
                     /\ req[r].responses = <<InternalErrorResponse(StorageErrorMessage)>>)
  /\ [][AppendOnly]_vars

C9_Witness ==
  /\ Len(webhookLogs) = 1
  /\ \E r1, r2 \in Reqs :
       /\ Done(r1) /\ req[r1].hist = <<"logWebhook", "respond">>
       /\ Done(r2) /\ Has(r2, "logged") /\ Has(r2, "posted")
       /\ webhookLogs[1] = req[r2].body

\* the stores a single delivery starts from
InitialStore ==
  \/ payments = <<>> /\ uispPosts = <<>>
  \/ payments = PaymentsAfterT1 /\ uispPosts = <<PayT1>>

\* the required fields that are missing from (falsy in) attributes n
Lacking(n) == {f \in {"client_id", "amount"} : ~Truthy(Get(n, f))}
Range(seq) == {seq[i] : i \in DOMAIN seq}

\* C7: once the attributes are extracted and not empty, a delivery lacking
\* client_id or amount (after the customer_id alias) is answered 200 when the
\* attributes have fewer than 3 keys and 400 naming exactly the missing fields
\* otherwise, with no record written and nothing posted; a delivery lacking
\* neither goes on to the idempotency lookup.
C7_RequiredFields ==
  \A r \in Reqs :
    (Has(r, "extract") /\ Keys(ExtractPaymentData(req[r].body)) # {}) =>
      LET n == Normalized(req[r].body) IN
      IF Lacking(n) # {}
      THEN /\ Done(r)
           /\ req[r].hist = <<"logWebhook", "logged", "extract", "respond">>
           /\ Len(req[r].responses) = 1
           /\ IF Cardinality(Keys(n)) < 3
              THEN req[r].responses[1] = TestResponse
              ELSE /\ req[r].responses[1].status = 400
                   /\ Range(req[r].responses[1].missingFields) = Lacking(n)
                   /\ Len(req[r].responses[1].missingFields) = Cardinality(Lacking(n))
           /\ req[r].post = "none" /\ req[r].paymentRecord = <<>>
           /\ InitialStore
      ELSE /\ Before(r, "extract", "getPayment")
           /\ \A i \in DOMAIN req[r].responses : req[r].responses[i].status # 400
           /\ \A i \in DOMAIN req[r].responses : req[r].responses[i] # TestResponse

C7_Witness ==
  \E r \in Reqs :
    /\ Done(r)
    /\ req[r].body = Obj([customer_id |-> Num(5), foo |-> Num(1)])
    /\ req[r].responses = <<MissingResponse(<<"amount">>)>>

\* the attributes extracted from body b are empty or missing
EmptyAttributes(b) == Keys(ExtractPaymentData(b)) = {}
NoPaymentWork(r) ==
  /\ Range(req[r].hist) \subseteq {"logWebhook", "logged", "extract", "respond"}
  /\ req[r].post = "none" /\ req[r].bg = "none" /\ req[r].paymentRecord = <<>>
  /\ InitialStore
  /\ clients = [synced |-> {}, lastPayment |-> {}]

\* C8 as stated: a delivery with empty or missing attributes is answered 200
\* as a ping and writes no record, looks up nothing, posts nothing and starts
\* no resync.
C8_PingAlways200 ==
  \A r \in Reqs :
    (req[r].pc # "idle" /\ EmptyAttributes(req[r].body)) =>
      /\ NoPaymentWork(r)
      /\ Done(r) => req[r].responses = <<PingResponse>>

\* C8 (amended): a delivery with empty or missing attributes writes no record,
\* looks up nothing, posts nothing and starts no resync; it is answered 200 as
\* a ping when the webhook log write at entry succeeds and 500 when that write
\* throws.
C8_PingNoPaymentWork ==
  \A r \in Reqs :
    (req[r].pc # "idle" /\ EmptyAttributes(req[r].body)) =>
      /\ NoPaymentWork(r)
      /\ Done(r) =>
           \/ /\ req[r].responses = <<PingResponse>>
              /\ req[r].hist = <<"logWebhook", "logged", "extract", "respond">>
           \/ /\ req[r].responses = <<InternalErrorResponse(StorageErrorMessage)>>
              /\ req[r].hist = <<"logWebhook", "respond">>

C8_Witness ==
  \E r \in Reqs :
    /\ Done(r) /\ req[r].body = JsonApi(Empty)
    /\ req[r].responses = <<PingResponse>>
    /\ payments = <<>> /\ Len(webhookLogs) = 1

\* the attribute objects and the three bodies that carry one
PlainAttrs == {a \in Attrs : Keys(a) # {}}
Shapes(a) == {JsonApi(a), PaymentEnvelope(a), a}
NeitherEnvelope ==
  {Obj([data |-> Obj([foo |-> Num(1)])]),
   Obj([data |-> Num(5), client_id |-> Num(1), amount |-> Num(100)]),
   Obj([payment |-> Num(0), client_id |-> Num(1), amount |-> Num(100)])}
\* the handler's state after validating the bare body a
BareOutcome(a, now) ==
  Validate([IdleReq EXCEPT !.pc = "logWebhook", !.body = a,
                           !.hist = <<"logWebhook", "logged">>], now)
SameRecord(row, rec) ==
  /\ row.transaction_id = rec.transaction_id /\ row.client_id = rec.client_id
  /\ row.amount = rec.amount /\ row.currency_code = rec.currency_code
  /\ row.payment_type = rec.payment_type /\ row.payment_method = rec.payment_method
  /\ row.created_at = rec.created_at

\* C10: the three bodies carrying the same non-empty attributes A are
\* normalized to the same attributes and answered, recorded and posted as the
\* bare body A is; a body matching neither envelope is read as the attributes.
C10_ShapesAgree ==
  /\ \A r \in Reqs, a \in PlainAttrs :
       (req[r].body \in Shapes(a) /\ Has(r, "logged")) =>
         \E now \in Times :
           LET v == BareOutcome(a, now) IN
           /\ req[r].paymentData = v.paymentData
           /\ v.pc = "done" =>
                /\ Done(r) /\ req[r].responses = v.responses /\ req[r].hist = v.hist
           /\ v.pc # "done" =>
                /\ req[r].paymentRecord \in {<<>>, <<PaymentRecord(v.paymentData)>>}
                /\ Has(r, "inserted") =>
                     SameRecord(RowsOf(Get(v.paymentData, "transaction_id"))[1],
                                PaymentRecord(v.paymentData))
                /\ req[r].post # "none" => uispPosts[Len(uispPosts)] = v.paymentData
                /\ \A i \in DOMAIN req[r].responses :
                     /\ req[r].responses[i].status # 400
                     /\ req[r].responses[i].transactionId \in
                          {Undef, Get(v.paymentData, "transaction_id")}
  /\ \A r \in Reqs :
       (req[r].body \in NeitherEnvelope /\ Has(r, "logged")) =>
         \A k \in Keys(req[r].body) \ {"client_id", "transaction_id"} :
           Get(req[r].paymentData, k) = Get(req[r].body, k)

C10_Witness ==
  \E r \in Reqs :
    /\ Done(r)
    /\ req[r].body = PaymentEnvelope(Obj([customer_id |-> Num(5), amount |-> Num(100)]))
    /\ req[r].responses = <<SuccessResponse(Str("SPLYNX-2-5"), UispPayment)>>
    /\ RowsOf(Str("SPLYNX-2-5")) # <<>>
    /\ RowsOf(Str("SPLYNX-2-5"))[1].client_id = Num(5)
    /\ RowsOf(Str("SPLYNX-2-5"))[1].currency_code = Str("KES")

\* every HTTP response sent so far, by delivery and by API request
AllResponses ==
  <<[r \in Reqs |-> req[r].responses], [a \in ApiReqs |-> api[a].responses]>>

\* C11: POST /api/clients/sync answers 200 with status in_progress as soon as
\* it has started syncAllClients, without waiting for it, and the later
\* success or failure of that sync produces and alters no response; POST
\* /api/clients/sync/wait answers only once syncAllClients has completed, 200
\* with its result when it succeeded and 500 when it failed.
C11_SyncTriggers ==
  /\ [](\A a \in ApiReqs :
          /\ api[a].route = "POST /clients/sync" =>
               /\ api[a].pc = "done"
               /\ api[a].responses = <<SyncStartedResponse>>
               /\ api[a].responses[1].status = 200
               /\ api[a].responses[1].syncStatus = "in_progress"
          /\ api[a].route = "POST /clients/sync/wait" =>
               /\ api[a].sync = "running" =>
                    api[a].pc = "syncAllClients" /\ api[a].responses = <<>>
               /\ api[a].sync = "completed" =>
                    /\ api[a].pc = "done"
                    /\ api[a].responses = <<SyncCompletedResponse(SyncResult)>>
                    /\ api[a].responses[1].status = 200
               /\ api[a].sync = "failed" =>
                    /\ api[a].pc = "done"
                    /\ Len(api[a].responses) = 1
                    /\ api[a].responses[1].status = 500
                    /\ api[a].responses[1].error = "Client sync failed")
  /\ [][\A a \in ApiReqs :
          (api[a].route = "POST /clients/sync" /\ api'[a].sync # api[a].sync) =>
            AllResponses' = AllResponses]_vars

C11_Witness ==
  \E a, b \in ApiReqs :
    /\ api[a].route = "POST /clients/sync" /\ api[a].sync = "failed"
    /\ api[a].responses = <<SyncStartedResponse>>
    /\ api[b].route = "POST /clients/sync/wait" /\ api[b].sync = "completed"
    /\ api[b].responses = <<SyncCompletedResponse(SyncResult)>>

\* the number a query parameter asks for: its value when it is a number, the
\* default when it is absent or not a number
Asked(v, default) == IF ParseQueryInt(v) = NaN THEN default ELSE ParseQueryInt(v).n
\* the rows of the table from row offset on, at most limit of them
PageOf(rows, limit, offset) ==
  LET left == IF Len(rows) > offset THEN Len(rows) - offset ELSE 0
      n == IF limit < left THEN limit ELSE left
  IN  [i \in 1..n |-> rows[offset + i]]
\* the GET /payments requests answered with a page
Paged ==
  {a \in ApiReqs : /\ api[a].route = "GET /payments"
                   /\ api[a].responses # <<>>
                   /\ api[a].responses[1].status = 200}

\* C12 as stated: the page GET /api/payments returns holds at most limit rows,
\* starting at offset, for the limit and offset the query gives (50 and 0 when
\* absent), and pagination.count is the number of rows in data.
C12_PageAsAsked ==
  \A a \in Paged :
    LET resp == api[a].responses[1]
        limit == Asked(Get(api[a].query, "limit"), DefaultLimit)
        offset == Asked(Get(api[a].query, "offset"), DefaultOffset)
    IN  /\ Len(resp.data) <= limit
        /\ resp.data = PageOf(payments, limit, offset)
        /\ resp.pagination[1].count = Len(resp.data)

\* C12 (amended): the page GET /api/payments returns holds at most limit rows,
\* starting at offset, and pagination.count is the number of rows in data,
\* where limit is the query's limit, or 50 when that is absent, not a number
\* or 0, and offset is the query's offset, or 0 when absent or not a number;
\* pagination reports that limit and offset.
C12_PageOfEffectiveLimit ==
  \A a \in Paged :
    LET resp == api[a].responses[1]
        asked == Asked(Get(api[a].query, "limit"), DefaultLimit)
        limit == IF asked = 0 THEN DefaultLimit ELSE asked
        offset == Asked(Get(api[a].query, "offset"), DefaultOffset)
    IN  /\ Len(api[a].responses) = 1
        /\ Len(resp.data) <= limit
        /\ resp.data = PageOf(payments, limit, offset)
        /\ resp.pagination[1].count = Len(resp.data)
        /\ resp.pagination[1].limit = limit
        /\ resp.pagination[1].offset = offset

C12_Witness ==
  \E a, b \in Paged :
    /\ api[a].query = Obj([limit |-> Str("0"), offset |-> Str("1")])
    /\ Len(api[a].responses[1].data) = DefaultLimit
    /\ api[a].responses[1].data[1] = payments[2]
    /\ api[b].query = Obj([limit |-> Str("1")])
    /\ api[b].responses[1].data = <<payments[1]>>
    /\ Len(payments) > DefaultLimit

\* deliveries r1 and r2 of one new transaction id that both passed the lookup;
\* r1's insert was accepted and r2's was rejected
Raced(r1, r2) ==
  /\ r1 # r2 /\ TxOf(r1) = TxOf(r2)
  /\ Has(r1, "inserted") /\ Has(r2, "insert failed")

\* C13: when two deliveries of the same new id both pass the lookup, the one
\* whose insert storage rejects ends with 500, posts nothing and changes no
\* record; the other has the only record and the only post of the id, and its
\* record and response follow its own calls alone.
C13_RaceLoserEnds500 ==
  /\ [](\A r1, r2 \in Reqs :
          Raced(r1, r2) =>
            /\ Done(r2) /\ req[r2].post = "none" /\ req[r2].bg = "none"
            /\ req[r2].responses = <<InternalErrorResponse(StorageErrorMessage)>>
            /\ Len(RowsOf(TxOf(r1))) = 1
            /\ Cardinality({i \in DOMAIN uispPosts : PostTx(i) = TxOf(r1)}) =
                 IF req[r1].post = "none" THEN 0 ELSE 1
            /\ RowsOf(TxOf(r1))[1].status =
                 IF Has(r1, "updated success") THEN "success"
                 ELSE IF Has(r1, "updated failed") THEN "failed" ELSE "pending"
            /\ (Done(r1) /\ Has(r1, "updated success")) =>
                 req[r1].responses = <<SuccessResponse(TxOf(r1), UispPayment)>>)
  /\ [][\A r \in Reqs :
          (~Has(r, "insert failed") /\ Has(r, "insert failed")') =>
            /\ payments' = payments /\ uispPosts' = uispPosts /\ clients' = clients
            /\ \A x \in Reqs \ {r} : req'[x] = req[x]]_vars

C13_Witness ==
  \E r1, r2 \in Reqs :
    /\ Raced(r1, r2) /\ Done(r1) /\ Done(r2)
    /\ Before(r2, "looked up", "insert failed")
    /\ req[r1].responses = <<SuccessResponse(TxOf(r1), UispPayment)>>
    /\ req[r2].responses = <<InternalErrorResponse(StorageErrorMessage)>>
    /\ Len(uispPosts) = 1 /\ Len(payments) = 1 /\ payments[1].status = "success"

\* delivery r marked its record failed, or told its caller that the post failed
ReportedPostFailure(r) ==
  \/ Has(r, "updated failed")
  \/ \E i \in DOMAIN req[r].responses :
       req[r].responses[i].error = "Failed to post payment to UISP"

\* C14 as stated: a delivery marks its record failed and tells its caller
\* 'Failed to post payment to UISP' only if its external post actually failed.
C14_FailedOnlyIfPostFailed ==
  \A r \in Reqs : ReportedPostFailure(r) => req[r].post = "failed"

\* a status update of delivery r was rejected by storage
StatusUpdateFailed(r) ==
  Has(r, "update success failed") \/ Has(r, "update failed failed")

\* C15 as stated (its second half): once a status update of a delivery has
\* failed, the record the delivery inserted stays pending.
C15_FailedUpdateStaysPending ==
  \A r \in Reqs :
    StatusUpdateFailed(r) => RowsOf(TxOf(r))[1].status = "pending"

ClientOf(r) == ParseInt(Get(req[r].paymentData, "client_id"))

\* C16: syncSingleClient is started only by a delivery that has updated its
\* record to success, and by no delivery that ends otherwise (failed post,
\* duplicate, ping, probe, 400, 500); updateClientLastPayment is called only
\* after that syncSingleClient resolved; when the sync rejects, the client's
\* last payment is not stamped.
C16_ResyncAfterSuccess ==
  /\ \A r \in Reqs :
       /\ (req[r].bg # "none") = Has(r, "syncSingleClient")
       /\ Has(r, "syncSingleClient") =>
            /\ Before(r, "updated success", "syncSingleClient")
            /\ RowsOf(TxOf(r))[1].status = "success"
            /\ req[r].responses = <<SuccessResponse(TxOf(r), UispPayment)>>
       /\ (Done(r) /\ req[r].responses # <<SuccessResponse(TxOf(r), UispPayment)>>) =>
            req[r].bg = "none"
       /\ Has(r, "updateClientLastPayment") =>
            /\ Before(r, "synced", "updateClientLastPayment")
            /\ ~Has(r, "sync failed")
       /\ Has(r, "sync failed") =>
            /\ req[r].bg = "failed"
            /\ ~Has(r, "last payment updated")
       /\ Has(r, "last payment updated") =>
            Before(r, "updateClientLastPayment", "last payment updated")
  /\ clients.synced = {ClientOf(r) : r \in {x \in Reqs : Has(x, "synced")}}
  /\ clients.lastPayment =
       {ClientOf(r) : r \in {x \in Reqs : Has(x, "last payment updated")}}

C16_Witness ==
  \E r1, r2 \in Reqs :
    /\ Has(r1, "sync failed") /\ req[r1].bg = "failed"
    /\ Has(r2, "last payment updated") /\ req[r2].bg = "done"
    /\ clients.synced = {ClientOf(r2)} /\ clients.lastPayment = {ClientOf(r2)}
    /\ ClientOf(r1) # ClientOf(r2)

\* delivery r is suspended at an awaited call
Awaiting(r) == req[r].pc \notin {"idle", "done"}
\* an awaited storage call of delivery r threw
StorageThrew(r) ==
  \/ Done(r) /\ ~Has(r, "logged")
  \/ Done(r) /\ Has(r, "getPayment") /\ ~Has(r, "looked up")
  \/ Has(r, "insert failed")
  \/ Has(r, "update success failed")
  \/ Has(r, "update failed failed")

\* C17: a delivery has no response while one of its awaited calls is pending,
\* and that call can return; once the handler has ended it has exactly one
\* response, which is never followed or replaced by another; when logWebhook,
\* getPaymentByTransactionId, insertPayment or updatePaymentStatus (in either
\* branch) threw, that one response is a 500.
C17_ExactlyOneResponse ==
  /\ [](\A r \in Reqs :
          /\ req[r].pc = "idle" => req[r].responses = <<>>
          /\ Awaiting(r) =>
               /\ req[r].responses = <<>>
               /\ ENABLED (\E ok \in BOOLEAN : Step(r, ok))
          /\ Done(r) => Len(req[r].responses) = 1
          /\ Cardinality({i \in DOMAIN req[r].hist : req[r].hist[i] = "respond"}) =
               Len(req[r].responses)
          /\ (Done(r) /\ StorageThrew(r)) => req[r].responses[1].status = 500)
  /\ [][\A r \in Reqs :
          req[r].responses # <<>> => req'[r].responses = req[r].responses]_vars

C17_Witness ==
  \E r1, r2 \in Reqs :
    /\ Done(r1) /\ Has(r1, "update success failed") /\ Has(r1, "update failed failed")
    /\ req[r1].responses = <<InternalErrorResponse(StorageErrorMessage)>>
    /\ Done(r2) /\ req[r2].hist = <<"logWebhook", "respond">>
    /\ req[r2].responses = <<InternalErrorResponse(StorageErrorMessage)>>

\* the record delivery r inserted is well formed
WellFormedRecord(r) ==
  LET row == RowsOf(TxOf(r))[1]
      given == ExtractPaymentData(req[r].body)
  IN  /\ Truthy(row.client_id) /\ Truthy(row.amount)
      /\ row.transaction_id.t = "str" /\ row.transaction_id.s # ""
      /\ Truthy(Get(given, "transaction_id")) =>
           row.transaction_id = Get(given, "transaction_id")
      /\ row.currency_code =
           IF Truthy(Get(given, "currency_code"))
           THEN Get(given, "currency_code") ELSE Str("KES")
\* delivery r has produced neither a record nor a post
NoRecordNoPost(r) ==
  /\ req[r].paymentRecord = <<>> /\ req[r].post = "none"
  /\ ~Has(r, "insertPayment") /\ ~Has(r, "postPaymentToUISP")
  /\ InitialStore
\* field f is present in the attributes of body b with a falsy value
PresentFalsy(b, f) ==
  f \in Keys(ExtractPaymentData(b)) /\ ~Truthy(Get(ExtractPaymentData(b), f))

\* C18 as stated: every inserted record has a truthy client_id and amount, a
\* non-empty transaction_id and a currency_code defaulting to 'KES'; a
\* delivery whose amount or client_id is 0 or empty produces no record and no
\* post.
C18_FalsyNeverRecorded ==
  \A r \in Reqs :
    /\ Has(r, "inserted") => WellFormedRecord(r)
    /\ (req[r].pc # "idle" /\ (PresentFalsy(req[r].body, "amount")
                               \/ PresentFalsy(req[r].body, "client_id"))) =>
         NoRecordNoPost(r)

\* C18 (amended): every inserted record has a truthy client_id and amount, a
\* non-empty transaction_id and a currency_code defaulting to 'KES'; a
\* delivery whose amount is falsy, or whose client_id is falsy with no truthy
\* customer_id to take its place, produces no record and no post; a falsy
\* client_id is replaced by a truthy customer_id and the record is made for it.
C18_RecordsWellFormed ==
  \A r \in Reqs :
    /\ Has(r, "inserted") => WellFormedRecord(r)
    /\ (req[r].pc # "idle" /\ Lacking(Normalized(req[r].body)) # {}) =>
         NoRecordNoPost(r)
    /\ (Has(r, "inserted") /\ ~Truthy(Get(ExtractPaymentData(req[r].body), "client_id"))) =>
         RowsOf(TxOf(r))[1].client_id = Get(ExtractPaymentData(req[r].body), "customer_id")

C18_Witness ==
  \E r \in Reqs :
    /\ Done(r)
    /\ req[r].body = Obj([client_id |-> Num(0), customer_id |-> Num(5),
                          amount |-> Num(100), transaction_id |-> Str("")])
    /\ req[r].responses = <<SuccessResponse(Str("SPLYNX-1-5"), UispPayment)>>
    /\ RowsOf(Str("SPLYNX-1-5"))[1].client_id = Num(5)
    /\ RowsOf(Str("SPLYNX-1-5"))[1].amount = Num(100)
    /\ RowsOf(Str("SPLYNX-1-5"))[1].currency_code = Str("KES")
    /\ Len(uispPosts) = Len(payments)

====
